---- MODULE Spec2Model ----
\* Model of the NFL drive explorer (src/nfl_drive_explorer.py) and of the
\* spread/outcome classifier (src/nfl_projected_win_analysis.py).
\*
\* Encoding conventions
\*   - a nullable value (pandas NA / Python None) is a set: {} is absent, {v} is v;
\*   - a real number is a rational <<n, d>> with d > 0 (exact arithmetic);
\*   - wp is counted in tenths (5 is 0.5); epa, wpa are counted in 1e-4 units, so
\*     that round(x, 4) leaves every sum unchanged;
\*   - a data frame is a sequence of rows in file order.
EXTENDS Integers, Sequences, FiniteSets, TLC

VARIABLES
  files,          \* seasons/nfl_<season>.csv on disk: season -> frame, for the files that exist
  season_cache,   \* the module-level dict season_cache: season -> frame
  suggested,      \* last result of update_suggested_drives: [up, down]
  display,        \* last result of display_drive_data
  end_games,      \* classifier: the frame of terminal plays, one row per game
  classified_df,  \* classifier: result of classify_games
  big_upsets,     \* classifier: the "big upsets" subset
  stage,          \* classifier: position in the script
  drive_options,  \* last result of update_drive_options
  games_options,  \* last result of update_games_dropdown
  drive_table,    \* analysis app: last result of display_drive_summary
  csv_reads,      \* season -> number of pd.read_csv calls made for its file
  cache_writes,   \* season -> number of assignments season_cache[season] = df
  pc,             \* caller -> its position in load_season_data
  call            \* caller -> the season it loads and the frame it has read

\* the outputs of the callbacks added to the first two
optionVars == <<drive_options, games_options, drive_table>>
\* what load_season_data has done so far
loadVars == <<csv_reads, cache_writes>>
\* the concurrent callers of load_season_data
callerVars == <<pc, call>>

vars == <<files, season_cache, suggested, display, end_games, classified_df, big_upsets,
          stage, optionVars, loadVars, callerVars>>

\* ---------------------------------------------------------------- bounds
MaxGames == 3
MaxPlays == 3
MaxBlocks == 3
MaxCallers == 2

\* ---------------------------------------------------------------- nullable values
NA == {}
Some(x) == {x}
isna(x) == x = {}
Val(x) == CHOOSE v \in x : TRUE

\* ---------------------------------------------------------------- sequences
\* ---------------------------------------------------------------- app.layout
\* the suggested dropdowns before any callback has run: no options
NoSuggested == [season |-> NA, week |-> NA, up |-> <<>>, down |-> <<>>]

\* drive-table and chart-container before any callback has run: no children
NoDisplay == [raised |-> NA, children |-> [msg |-> NA, table |-> <<>>], charts |-> NA]

\* the analysis app's drive_table before any callback has run: no data
NoTable == [season |-> NA, raised |-> NA, data |-> <<>>]

\* the drive dropdown before any callback has run: no options
NoOptions == [game_id |-> NA, season |-> NA, week |-> NA, options |-> <<>>]

\* the game dropdown before any callback has run: no options
NoGames == [season |-> NA, options |-> <<>>]

\* the threads of the server that run callbacks
Callers == 1..MaxCallers

\* a caller that is not inside load_season_data
NoCall == [season |-> NA, df |-> NA]

\* no callback has run: the dropdowns have no options, nothing was read or cached,
\* no caller is inside load_season_data
InitIdle ==
  /\ drive_options = NoOptions
  /\ games_options = NoGames
  /\ drive_table = NoTable
  /\ csv_reads = <<>>
  /\ cache_writes = <<>>
  /\ pc = [t \in Callers |-> "idle"]
  /\ call = [t \in Callers |-> NoCall]

\* ================================================================ classifier
\* src/nfl_projected_win_analysis.py

SpreadThreshold == 6

GameSpreads == {NA} \cup {Some(x) : x \in {0 - 7, 0 - 6, 0, 6, 7}}
GameScores == {<<20, 17>>, <<17, 20>>, <<20, 20>>}
GameTeams == <<[home |-> "KC", away |-> "SF"], [home |-> "SF", away |-> "DAL"],
               [home |-> "DAL", away |-> "KC"], [home |-> "NYG", away |-> "KC"]>>

\* one row of end_games: the terminal play of game number i
GameRow(i, spread, score) ==
  [game_id |-> i, season |-> 2023,
   home_team |-> GameTeams[((i - 1) % Len(GameTeams)) + 1].home,
   away_team |-> GameTeams[((i - 1) % Len(GameTeams)) + 1].away,
   spread_line |-> spread,
   total_home_score |-> score[1], total_away_score |-> score[2]]

\* end_games built from one (spread, score) choice per game
EndGamesOf(c) == [i \in DOMAIN c |-> GameRow(i, c[i][1], c[i][2])]

expected_winner_mut(row) ==
  LET spread == Val(row.spread_line) IN
  IF spread >= 0 THEN row.home_team ELSE row.away_team

expected_winner(row) ==
  LET spread == Val(row.spread_line) IN
  IF spread > 0 THEN row.home_team
  ELSE IF spread < 0 THEN row.away_team
  ELSE "Even"

actual_winner(row) ==
  IF row.total_home_score > row.total_away_score THEN row.home_team
  ELSE IF row.total_away_score > row.total_home_score THEN row.away_team
  ELSE "Tie"

result_type_mut(expected, actual) ==
  IF expected = actual THEN "confirmed_win"
  ELSE IF expected = "Even" THEN "even_match"
  ELSE "upset"

result_type(expected, actual) ==
  IF expected = "Even" \/ actual = "Tie" THEN "even_match"
  ELSE IF expected = actual THEN "confirmed_win"
  ELSE "upset"

big_home_favorite_upset_mut(rt, spread) == rt = "upset" /\ spread >= SpreadThreshold

big_home_favorite_upset(rt, spread) == rt = "upset" /\ spread > SpreadThreshold

big_away_favorite_upset(rt, spread) == rt = "upset" /\ spread < 0 - SpreadThreshold

\* the dict appended to results for one row with a present spread
classify_row(row) ==
  LET spread == Val(row.spread_line)
      expected == expected_winner(row)
      actual == actual_winner(row)
      rt == result_type(expected, actual)
  IN [game_id |-> row.game_id, season |-> row.season,
      home_team |-> row.home_team, away_team |-> row.away_team,
      spread |-> spread,
      expected_winner |-> expected, actual_winner |-> actual,
      result_type |-> rt,
      big_home_favorite_upset |-> big_home_favorite_upset(rt, spread),
      big_away_favorite_upset |-> big_away_favorite_upset(rt, spread)]

RECURSIVE classify_games_mut(_)
classify_games_mut(rows) ==
  IF rows = <<>> THEN <<>>
  ELSE IF isna(Head(rows).spread_line)
       THEN <<classify_row([Head(rows) EXCEPT !.spread_line = Some(0)])>>
              \o classify_games_mut(Tail(rows))
       ELSE <<classify_row(Head(rows))>> \o classify_games_mut(Tail(rows))

RECURSIVE classify_games(_)
classify_games(rows) ==
  IF rows = <<>> THEN <<>>
  ELSE IF isna(Head(rows).spread_line) THEN classify_games(Tail(rows))
       ELSE <<classify_row(Head(rows))>> \o classify_games(Tail(rows))

IsBigUpset(r) == r.big_home_favorite_upset \/ r.big_away_favorite_upset

big_upsets_filter(df) == SelectSeq(df, IsBigUpset)

\* classified_df = classify_games(end_games)
ClassifyGames ==
  /\ stage = "end_games"
  /\ classified_df' = classify_games(end_games)
  /\ stage' = "classified"
  /\ UNCHANGED <<files, season_cache, suggested, display, end_games, big_upsets>>
  /\ UNCHANGED <<optionVars, loadVars, callerVars>>

\* big_upsets = classified_df[big_home_favorite_upset | big_away_favorite_upset]
ComputeBigUpsets ==
  /\ stage = "classified"
  /\ big_upsets' = big_upsets_filter(classified_df)
  /\ stage' = "charts"
  /\ UNCHANGED <<files, season_cache, suggested, display, end_games, classified_df>>
  /\ UNCHANGED <<optionVars, loadVars, callerVars>>

InitGames ==
  /\ \E k \in 0..MaxGames : \E c \in [1..k -> GameSpreads \X GameScores] :
       end_games = EndGamesOf(c)
  /\ classified_df = <<>>
  /\ big_upsets = <<>>
  /\ stage = "end_games"
  /\ files = <<>>
  /\ season_cache = <<>>
  /\ suggested = NoSuggested
  /\ display = NoDisplay
  /\ InitIdle

NextGames == ClassifyGames \/ ComputeBigUpsets

SpecGames == InitGames /\ [][NextGames]_vars


\* ---------------------------------------------------------------- classifier claims
Classified == stage # "end_games"

\* the rows of classified_df that belong to game i
ResultsOf(i) == {k \in 1..Len(classified_df) : classified_df[k].game_id = i}

\* C1: for every game with a present spread, expected_winner is the home team if
\* spread > 0, the away team if spread < 0, else "Even"; actual_winner is the team
\* with the higher final score, else "Tie"; result_type is even_match whenever the
\* expected winner is "Even" or the actual winner is "Tie" (a tied score is
\* even_match whatever the spread), confirmed_win when the two winners are equal,
\* upset otherwise.
C1_Classification ==
  Classified =>
    \A i \in 1..Len(end_games) : \A k \in ResultsOf(i) :
      LET g == end_games[i]
          r == classified_df[k]
          sp == Val(g.spread_line)
      IN /\ (sp > 0 => r.expected_winner = g.home_team)
         /\ (sp < 0 => r.expected_winner = g.away_team)
         /\ (sp = 0 => r.expected_winner = "Even")
         /\ (g.total_home_score > g.total_away_score => r.actual_winner = g.home_team)
         /\ (g.total_home_score < g.total_away_score => r.actual_winner = g.away_team)
         /\ (g.total_home_score = g.total_away_score => r.actual_winner = "Tie")
         /\ (g.total_home_score = g.total_away_score => r.result_type = "even_match")
         /\ ((r.expected_winner = "Even" \/ r.actual_winner = "Tie")
               => r.result_type = "even_match")
         /\ ((r.expected_winner # "Even" /\ r.actual_winner # "Tie"
               /\ r.expected_winner = r.actual_winner) => r.result_type = "confirmed_win")
         /\ ((r.expected_winner # "Even" /\ r.actual_winner # "Tie"
               /\ r.expected_winner # r.actual_winner) => r.result_type = "upset")

\* a classified season that holds an upset, a confirmed win and a tied game with a
\* non-zero spread
C1_Witness ==
  /\ Classified
  /\ \E k \in 1..Len(classified_df) : classified_df[k].result_type = "upset"
  /\ \E k \in 1..Len(classified_df) : classified_df[k].result_type = "confirmed_win"
  /\ \E k \in 1..Len(classified_df) :
       classified_df[k].actual_winner = "Tie" /\ classified_df[k].spread # 0

C3_OnePerClassifiableGame ==
  Classified =>
    /\ \A i \in 1..Len(end_games) :
         Cardinality(ResultsOf(i)) = IF isna(end_games[i].spread_line) THEN 0 ELSE 1
    /\ \A k \in 1..Len(classified_df) : classified_df[k].game_id \in 1..Len(end_games)

\* a classified season with a game that has no spread and a game that has one
C3_Witness ==
  /\ Classified
  /\ \E i \in 1..Len(end_games) : isna(end_games[i].spread_line)
  /\ \E i \in 1..Len(end_games) : ~isna(end_games[i].spread_line)
  /\ Len(classified_df) > 0

\* C4 as stated: every game whose spread is 0 or absent has result_type even_match.
C4_Original ==
  Classified =>
    \A i \in 1..Len(end_games) :
      (isna(end_games[i].spread_line) \/ end_games[i].spread_line = Some(0))
        => \E k \in ResultsOf(i) : classified_df[k].result_type = "even_match"

\* C4 (amended): every game whose spread is 0 has result_type even_match, whatever
\* the final scores; a game whose spread is absent has no result_type at all.
C4_ZeroSpreadEvenMatch ==
  Classified =>
    \A i \in 1..Len(end_games) :
      /\ end_games[i].spread_line = Some(0)
           => /\ ResultsOf(i) # {}
              /\ \A k \in ResultsOf(i) : classified_df[k].result_type = "even_match"
      /\ isna(end_games[i].spread_line)
           => ~\E k \in 1..Len(classified_df) : classified_df[k].game_id = i

\* a classified season with a zero-spread game won by the home team, a zero-spread
\* game won by the away team, and a game without a spread
C4_Witness ==
  /\ Classified
  /\ \E i \in 1..Len(end_games) :
       /\ end_games[i].spread_line = Some(0)
       /\ end_games[i].total_home_score > end_games[i].total_away_score
  /\ \E i \in 1..Len(end_games) :
       /\ end_games[i].spread_line = Some(0)
       /\ end_games[i].total_home_score < end_games[i].total_away_score
  /\ \E i \in 1..Len(end_games) : isna(end_games[i].spread_line)

\* ================================================================ drive explorer
\* src/nfl_drive_explorer.py

\* ---------------------------------------------------------------- exact reals
RECURSIVE Gcd(_, _)
Gcd(a, b) == IF b = 0 THEN a ELSE Gcd(b, a % b)

Abs(x) == IF x < 0 THEN 0 - x ELSE x

\* the rational n/d in lowest terms with a positive denominator (d # 0)
Rat(n, d) ==
  LET g == Gcd(Abs(n), Abs(d))
      sgn == IF d < 0 THEN 0 - 1 ELSE 1
  IN <<sgn * (n \div g), sgn * (d \div g)>>

RatInt(n) == <<n, 1>>
RatZero == RatInt(0)
RatOne == RatInt(1)
RatAdd(x, y) == Rat(x[1] * y[2] + y[1] * x[2], x[2] * y[2])
RatMul(x, y) == Rat(x[1] * y[1], x[2] * y[2])
\* x / y for y # 0
RatDiv(x, y) == Rat(x[1] * y[2], x[2] * y[1])
RatLeq(x, y) == x[1] * y[2] <= y[1] * x[2]

\* ---------------------------------------------------------------- frames
RECURSIVE Ascending(_)
\* sorted(...) of distinct numbers
Ascending(S) ==
  IF S = {} THEN <<>>
  ELSE LET m == CHOOSE x \in S : \A y \in S : x <= y
       IN <<m>> \o Ascending(S \ {m})

\* order-preserving distinct values of a sequence (Series.unique)
RECURSIVE Unique(_)
Unique(s) ==
  IF s = <<>> THEN <<>>
  ELSE LET rest == Unique(SubSeq(s, 1, Len(s) - 1))
           x == s[Len(s)]
       IN IF \E i \in 1..Len(rest) : rest[i] = x THEN rest ELSE Append(rest, x)

RECURSIVE SumOver(_, _)
\* sum of the integer column col of the rows (Series.sum)
SumOver(rows, col) ==
  IF rows = <<>> THEN 0 ELSE rows[1][col] + SumOver(Tail(rows), col)

\* pd.to_numeric(errors='coerce').astype('Int64') of one cell: a number stays,
\* anything else becomes NA
to_numeric(cell) ==
  IF cell = NA THEN NA
  ELSE IF Val(cell) \in Int THEN cell ELSE NA

\* pd.read_csv(path) followed by the two numeric coercions of load_season_data
read_season(file) ==
  [wpa_col |-> file.wpa_col,
   rows |-> [i \in 1..Len(file.rows) |->
               [file.rows[i] EXCEPT !.season = to_numeric(file.rows[i].season),
                                    !.week = to_numeric(file.rows[i].week)]]]

reads_file_mut(cache, disk, season) == season \in DOMAIN disk

\* whether load_season_data(season) reads the file: the season is not cached
\* and its file exists
reads_file(cache, disk, season) == season \notin DOMAIN cache /\ season \in DOMAIN disk

\* season_cache after load_season_data(season)
cache_after_load(cache, disk, season) ==
  IF reads_file(cache, disk, season)
  THEN [s \in DOMAIN cache \cup {season} |->
          IF s = season THEN read_season(disk[season]) ELSE cache[s]]
  ELSE cache

\* the value load_season_data(season) returns: season_cache.get(season)
load_season_data(cache, disk, season) ==
  LET after == cache_after_load(cache, disk, season) IN
  IF season \in DOMAIN after THEN Some(after[season]) ELSE NA

\* the count kept for season, and the counts after one more
Count(counts, season) == IF season \in DOMAIN counts THEN counts[season] ELSE 0
Bump(counts, season) ==
  [s \in DOMAIN counts \cup {season} |->
     IF s = season THEN Count(counts, s) + 1 ELSE counts[s]]

\* csv_reads, or cache_writes, after load_season_data(season)
count_after_load(counts, cache, disk, season) ==
  IF reads_file(cache, disk, season) THEN Bump(counts, season) ELSE counts

\* df[df['week'] == week]
WeekRows(rows, week) ==
  LET InWeek(p) == p.week = Some(week) IN SelectSeq(rows, InWeek)

\* df[df['game_id'] == game_id]
GameRows(rows, game_id) ==
  LET InGame(p) == p.game_id = game_id IN SelectSeq(rows, InGame)

DriveRows_mut(rows, drive_num) ==
  LET InDrive(p) == p.drive = Some(drive_num) \/ isna(p.drive) IN SelectSeq(rows, InDrive)

\* df[df['drive'] == drive_num]
DriveRows(rows, drive_num) ==
  LET InDrive(p) == p.drive = Some(drive_num) IN SelectSeq(rows, InDrive)

GameIds_mut(rows) == Ascending({rows[i].game_id : i \in 1..Len(rows)})

\* df['game_id'].unique()
GameIds(rows) == Unique([i \in 1..Len(rows) |-> rows[i].game_id])

DriveNums_mut(rows) ==
  LET HasDrive(p) == ~isna(p.drive)
      kept == SelectSeq(rows, HasDrive)
  IN [i \in 1..Len(kept) |-> Val(kept[i].drive)]

\* df['drive'].dropna().unique()
DriveNums(rows) ==
  LET HasDrive(p) == ~isna(p.drive)
      kept == SelectSeq(rows, HasDrive)
  IN Unique([i \in 1..Len(kept) |-> Val(kept[i].drive)])

\* ---------------------------------------------------------------- update_suggested_drives
WpHalf == 5

swing_category_mut(start_wp, end_wp) ==
  IF start_wp < WpHalf /\ end_wp >= WpHalf THEN "up"
  ELSE IF start_wp > WpHalf /\ end_wp < WpHalf THEN "down"
  ELSE "neutral"

\* "up", "down" or "neutral" from the first and the last wp of a drive
swing_category(start_wp, end_wp) ==
  IF start_wp < WpHalf /\ end_wp > WpHalf THEN "up"
  ELSE IF start_wp > WpHalf /\ end_wp < WpHalf THEN "down"
  ELSE "neutral"

\* the option appended for one drive: its value and the numbers of its label
drive_option(frame, game_id, drive_num, drive_df) ==
  [value |-> <<game_id, drive_num>>,
   epa |-> SumOver(drive_df, "epa"),
   wpa |-> IF frame.wpa_col THEN SumOver(drive_df, "wpa") ELSE 0,
   yds |-> SumOver(drive_df, "yards_gained")]

RECURSIVE swing_drives(_, _, _, _, _)
\* the inner loop: the drives drive_nums of one game, appended to acc = [up, down]
swing_drives(frame, game_df, game_id, drive_nums, acc) ==
  IF drive_nums = <<>> THEN acc
  ELSE
    LET drive_num == Head(drive_nums)
        drive_df == DriveRows(game_df, drive_num)
        more == Tail(drive_nums)
    IN IF drive_df = <<>> THEN swing_drives(frame, game_df, game_id, more, acc)
       ELSE
         LET start_wp == drive_df[1].wp
             end_wp == drive_df[Len(drive_df)].wp
             category == swing_category(start_wp, end_wp)
             opt == drive_option(frame, game_id, drive_num, drive_df)
         IN IF category = "up"
            THEN swing_drives(frame, game_df, game_id, more,
                              [acc EXCEPT !.up = Append(@, opt)])
            ELSE IF category = "down"
            THEN swing_drives(frame, game_df, game_id, more,
                              [acc EXCEPT !.down = Append(@, opt)])
            ELSE swing_drives(frame, game_df, game_id, more, acc)

RECURSIVE swing_games(_, _, _, _)
\* the outer loop over the game ids of the week
swing_games(frame, week_df, game_ids, acc) ==
  IF game_ids = <<>> THEN acc
  ELSE
    LET game_id == Head(game_ids)
        game_df == GameRows(week_df, game_id)
    IN swing_games(frame, week_df, Tail(game_ids),
                   swing_drives(frame, game_df, game_id, DriveNums(game_df), acc))

NoSuggestions == [up |-> <<>>, down |-> <<>>]

\* the pair update_suggested_drives(season, week) returns; season and week are
\* nullable, df is the nullable frame load_season_data returned
suggested_drives(df, season, week) ==
  IF isna(season) \/ isna(week) THEN NoSuggestions
  ELSE IF isna(df) THEN NoSuggestions
  ELSE LET week_df == WeekRows(Val(df).rows, Val(week))
       IN swing_games(Val(df), week_df, GameIds(week_df), NoSuggestions)

\* ---------------------------------------------------------------- display_drive_data
\* Python truthiness of a nullable number: None and 0 are falsy
Falsy(x) == isna(x) \/ x = Some(0)

CountType(rows, t) == LET IsT(p) == p.play_type = t IN Len(SelectSeq(rows, IsT))

pct_mut(count, total) == IF total # 0 THEN Rat(count, total) ELSE RatOne

\* count / total if total else 0
pct(count, total) == IF total # 0 THEN Rat(count, total) ELSE RatZero

\* the nested drive_summary(df_): the six metrics of the rows of one drive
drive_summary(frame, rows) ==
  LET run_plays == CountType(rows, "run")
      pass_plays == CountType(rows, "pass")
      total == run_plays + pass_plays
  IN [plays |-> RatInt(Len(rows)),
      epa |-> RatInt(SumOver(rows, "epa")),
      wpa |-> IF frame.wpa_col THEN RatInt(SumOver(rows, "wpa")) ELSE RatZero,
      yards |-> RatInt(SumOver(rows, "yards_gained")),
      run_pct |-> pct(run_plays, total),
      pass_pct |-> pct(pass_plays, total)]

\* the (game_id, drive) keys of dropna(subset=['drive']).groupby(['game_id', 'drive'])
GroupKeys(rows) ==
  {<<rows[i].game_id, Val(rows[i].drive)>> :
     i \in {j \in 1..Len(rows) : ~isna(rows[j].drive)}}

KeyLeq(a, b) == a[1] < b[1] \/ (a[1] = b[1] /\ a[2] <= b[2])

RECURSIVE SortedKeys(_)
\* groupby iterates its groups in ascending key order
SortedKeys(keys) ==
  IF keys = {} THEN <<>>
  ELSE LET first == CHOOSE a \in keys : \A b \in keys : KeyLeq(a, b)
       IN <<first>> \o SortedKeys(keys \ {first})

summary_data_mut(frame, season_df) ==
  LET HasDrive(p) == ~isna(p.drive)
      kept == SelectSeq(season_df, HasDrive)
  IN [k \in 1..Len(kept) |-> drive_summary(frame, <<kept[k]>>)]

\* summary_data: one drive_summary per (game_id, drive) group of the week
summary_data(frame, season_df) ==
  LET keys == SortedKeys(GroupKeys(season_df))
  IN [k \in 1..Len(keys) |->
        drive_summary(frame, DriveRows(GameRows(season_df, keys[k][1]), keys[k][2]))]

RECURSIVE RatInsert(_, _)
RatInsert(sorted, x) ==
  IF sorted = <<>> THEN <<x>>
  ELSE IF RatLeq(x, Head(sorted)) THEN <<x>> \o sorted
       ELSE <<Head(sorted)>> \o RatInsert(Tail(sorted), x)

RECURSIVE RatSort(_)
RatSort(s) == IF s = <<>> THEN <<>> ELSE RatInsert(RatSort(Tail(s)), Head(s))

\* Series.median of a non-empty column: the middle value, or the mean of the two
\* middle values
Median(values) ==
  LET sorted == RatSort(values)
      n == Len(sorted)
  IN IF n % 2 = 1 THEN sorted[(n + 1) \div 2]
     ELSE RatDiv(RatAdd(sorted[n \div 2], sorted[(n \div 2) + 1]), RatInt(2))

MetricKeys == <<"plays", "epa", "wpa", "yards", "run_pct", "pass_pct">>

\* summary_df.median(numeric_only=True) of a non-empty summary_df
median_of(summary_df) ==
  [k \in {MetricKeys[i] : i \in 1..Len(MetricKeys)} |->
     Median([j \in 1..Len(summary_df) |-> summary_df[j][k]])]

norm_mut_one(val, med) == IF med # RatZero THEN RatDiv(val, med) ELSE RatOne

norm_mut_times(val, med) == IF med # RatZero THEN RatMul(val, med) ELSE RatZero

\* def norm(val, med): return val / med if med else 0
norm(val, med) == IF med # RatZero THEN RatDiv(val, med) ELSE RatZero

\* r of the 'This Drive' trace of the radar chart
fingerprint(current_summary, median) ==
  [i \in 1..Len(MetricKeys) |-> norm(current_summary[MetricKeys[i]], median[MetricKeys[i]])]

\* r of the 'Median' trace: [1]*6
reference_vector == [i \in 1..Len(MetricKeys) |-> RatOne]

\* the points of the bubble chart: epa, wpa and size = |yards| of every pool drive
scatter_table(summary_df) ==
  [j \in 1..Len(summary_df) |->
     [epa |-> summary_df[j].epa, wpa |-> summary_df[j].wpa,
      size |-> RatInt(Abs(summary_df[j].yards[1]))]]

\* a returned pair (html.Div(text), None)
Message(text) ==
  [raised |-> NA, children |-> [msg |-> Some(text), table |-> <<>>], charts |-> NA]

\* the callback ends in an exception instead of returning
Raised(exc) ==
  [raised |-> Some(exc), children |-> [msg |-> NA, table |-> <<>>], charts |-> NA]

\* lines 400-488: the table and the charts of a non-empty drive_df; an empty
\* summary_df has no columns, so median[k] raises KeyError
drive_charts(frame, rows, week, drive_df) ==
  LET season_df == WeekRows(rows, week)
      summary_df == summary_data(frame, season_df)
      current_summary == drive_summary(frame, drive_df)
  IN IF summary_df = <<>> THEN Raised("KeyError")
     ELSE [raised |-> NA,
           children |-> [msg |-> NA, table |-> drive_df],
           charts |-> Some([radar_this |-> fingerprint(current_summary, median_of(summary_df)),
                            radar_median |-> reference_vector,
                            bubble |-> scatter_table(summary_df),
                            bubble_this |-> [epa |-> current_summary.epa,
                                             wpa |-> current_summary.wpa]])]

\* df[(week == week) & (game_id == game_id) & (drive == drive)]
SelectedDrive(rows, week, game_id, drive) ==
  DriveRows(GameRows(WeekRows(rows, week), game_id), drive)

show_drive_mut(frame, week, drive_df) == drive_charts(frame, frame.rows, week, drive_df)

\* lines 397-488: the early return on an empty drive_df, else the charts
show_drive(frame, week, drive_df) ==
  IF drive_df = <<>> THEN Message("No data for selected drive.")
  ELSE drive_charts(frame, frame.rows, week, drive_df)

\* the pair display_drive_data returns; every argument is nullable except
\* view_mode, a suggested value is the pair (game_id, drive) of "game_id|drive",
\* df is the nullable frame load_season_data returned
display_drive_data(df, chron_drive, up_val, down_val, season, week, view_mode, game_id) ==
  IF Falsy(season) \/ Falsy(week) THEN Message("Select inputs.")
  ELSE IF isna(df) THEN Message("No data available.")
  ELSE IF view_mode = "chronological"
  THEN IF Falsy(chron_drive) \/ isna(game_id) THEN Message("Select a drive.")
       ELSE show_drive(Val(df), Val(week),
                       SelectedDrive(Val(df).rows, Val(week), Val(game_id), Val(chron_drive)))
  ELSE LET val == IF ~isna(up_val) THEN up_val ELSE down_val
       IN IF isna(val) THEN Message("Select a suggested drive.")
          ELSE show_drive(Val(df), Val(week),
                          SelectedDrive(Val(df).rows, Val(week), Val(val)[1], Val(val)[2]))

\* ---------------------------------------------------------------- inputs
Seasons == {2023, 2024}
Weeks == {1, 2}
SeasonInputs == {NA} \cup {Some(x) : x \in Seasons}
WeekInputs == {NA} \cup {Some(x) : x \in Weeks}

\* (game_id, week, drive) of the plays of a season file: two drives of game 1 and
\* one of game 2 in week 1, a play without a drive, and a week 2 play that shares
\* game id and drive number with a week 1 drive
PlayKeys ==
  {[game_id |-> 1, week |-> 1, drive |-> Some(1)],
   [game_id |-> 1, week |-> 1, drive |-> Some(2)],
   [game_id |-> 2, week |-> 1, drive |-> Some(1)],
   [game_id |-> 1, week |-> 1, drive |-> NA],
   [game_id |-> 1, week |-> 2, drive |-> Some(1)]}

\* play_type with the numbers of the play (epa, wpa in 1e-4 units, wp in tenths)
PlayKinds ==
  {[play_type |-> "run", epa |-> 3, wpa |-> 1, yards_gained |-> 4, wp |-> 4],
   [play_type |-> "pass", epa |-> 0 - 2, wpa |-> 0 - 1, yards_gained |-> 12, wp |-> 6],
   [play_type |-> "punt", epa |-> 0, wpa |-> 0, yards_gained |-> 0, wp |-> 5]}

\* the plays a season file is drawn from: every kind of play in drive 1 of the two
\* games of week 1, and a run in drive 2, a run without a drive and a run in week 2
SeasonPlays ==
  {kk \in PlayKeys \X PlayKinds :
     (kk[1].week = 1 /\ kk[1].drive = Some(1)) \/ kk[2].play_type = "run"}

\* one row of the season file
PlayRow(season, key, kind) ==
  [season |-> Some(season), week |-> Some(key.week), game_id |-> key.game_id,
   drive |-> key.drive, play_type |-> kind.play_type, epa |-> kind.epa,
   wpa |-> kind.wpa, yards_gained |-> kind.yards_gained, wp |-> kind.wp]

\* the file seasons/nfl_<season>.csv with one (key, kind) choice per row; the
\* files carry the wpa column
SeasonFile(season, c) ==
  [wpa_col |-> TRUE, rows |-> [i \in DOMAIN c |-> PlayRow(season, c[i][1], c[i][2])]]

\* one whole call load_season_data(season) by a callback: its effect on the cache
\* and on the counts
LoadSeason(season) ==
  /\ season_cache' = cache_after_load(season_cache, files, season)
  /\ csv_reads' = count_after_load(csv_reads, season_cache, files, season)
  /\ cache_writes' = count_after_load(cache_writes, season_cache, files, season)

\* update_suggested_drives(season, week)
UpdateSuggestedDrives ==
  \E season \in SeasonInputs, week \in WeekInputs :
    LET loads == ~isna(season) /\ ~isna(week)
        df == IF loads THEN load_season_data(season_cache, files, Val(season)) ELSE NA
        res == suggested_drives(df, season, week)
    IN /\ IF loads THEN LoadSeason(Val(season)) ELSE UNCHANGED <<season_cache, loadVars>>
       /\ suggested' = [season |-> season, week |-> week, up |-> res.up, down |-> res.down]
       /\ UNCHANGED <<files, display, end_games, classified_df, big_upsets, stage>>
       /\ UNCHANGED <<optionVars, callerVars>>

\* the process starts with an empty season_cache; the file of the first season
\* exists, the file of the other season does not
InitExplorer ==
  /\ \E k \in 0..MaxPlays : \E c \in [1..k -> SeasonPlays] :
       files = [s \in {2023} |-> SeasonFile(s, c)]
  /\ season_cache = <<>>
  /\ suggested = NoSuggested
  /\ display = NoDisplay
  /\ InitIdle
  /\ end_games = <<>>
  /\ classified_df = <<>>
  /\ big_upsets = <<>>
  /\ stage = "end_games"

\* the inputs that select the drive. In chronological mode the suggested values
\* are not read; in every other mode ("suggested" stands for them) the game and
\* the drive dropdown are not read and only up_val or down_val counts.
DriveSelections ==
  {[view_mode |-> "chronological", chron_drive |-> d, game_id |-> g,
    up_val |-> NA, down_val |-> NA] :
     d \in {Some(1), Some(2)}, g \in {Some(1), Some(2)}}
    \cup
  {[view_mode |-> "chronological", chron_drive |-> dg[1], game_id |-> dg[2],
    up_val |-> NA, down_val |-> NA] :
     dg \in {<<NA, Some(1)>>, <<Some(1), NA>>}}
    \cup
  {[view_mode |-> "suggested", chron_drive |-> NA, game_id |-> NA,
    up_val |-> ud[1], down_val |-> ud[2]] :
     ud \in {<<NA, NA>>, <<NA, Some(<<1, 2>>)>>, <<Some(<<2, 1>>), Some(<<1, 1>>)>>}}

\* display_drive_data(chron_drive, up_val, down_val, season, week, view_mode, game_id);
\* the inputs a branch does not read are not enumerated for it
DisplayDriveData ==
  \E season \in SeasonInputs, week \in WeekInputs :
    IF Falsy(season) \/ Falsy(week)
    THEN /\ display' = display_drive_data(NA, NA, NA, NA, season, week, "chronological", NA)
         /\ UNCHANGED <<files, season_cache, suggested, end_games, classified_df,
                        big_upsets, stage, optionVars, loadVars, callerVars>>
    ELSE LET df == load_season_data(season_cache, files, Val(season)) IN
         /\ LoadSeason(Val(season))
         /\ IF isna(df)
            THEN display' = display_drive_data(df, NA, NA, NA, season, week,
                                               "chronological", NA)
            ELSE \E sel \in DriveSelections :
                   display' = display_drive_data(df, sel.chron_drive, sel.up_val,
                                                 sel.down_val, season, week,
                                                 sel.view_mode, sel.game_id)
         /\ UNCHANGED <<files, suggested, end_games, classified_df, big_upsets, stage>>
         /\ UNCHANGED <<optionVars, callerVars>>

\* ---------------------------------------------------------------- update_drive_options
\* the option appended for one drive of the selected game
dropdown_option(frame, drive_num, drive_df) ==
  [value |-> drive_num,
   epa |-> SumOver(drive_df, "epa"),
   wpa |-> IF frame.wpa_col THEN SumOver(drive_df, "wpa") ELSE 0,
   yds |-> SumOver(drive_df, "yards_gained")]

\* the list update_drive_options(game_id, season, week) returns; the arguments are
\* nullable, df is the nullable frame load_season_data returned
drive_options_of(df, game_id, season, week) ==
  IF isna(game_id) \/ isna(season) \/ isna(week) THEN <<>>
  ELSE IF isna(df) THEN <<>>
  ELSE LET rows == GameRows(WeekRows(Val(df).rows, Val(week)), Val(game_id))
           found == DriveNums(rows)
           nums == Ascending({found[i] : i \in 1..Len(found)})
           NonEmpty(n) == DriveRows(rows, n) # <<>>
           kept == SelectSeq(nums, NonEmpty)
       IN [k \in 1..Len(kept) |->
             dropdown_option(Val(df), kept[k], DriveRows(rows, kept[k]))]

\* the values of the game dropdown: nothing selected, or a game
GameInputs == {NA, Some(2)}

\* the arguments of update_drive_options; the guard stops at the first absent one,
\* so the arguments after it are not read and are left absent
OptionInputs ==
  {in \in GameInputs \X SeasonInputs \X WeekInputs :
     (isna(in[1]) => isna(in[2])) /\ (isna(in[2]) => isna(in[3]))}

\* update_drive_options(game_id, season, week)
UpdateDriveOptions ==
  \E in \in OptionInputs :
    LET game_id == in[1]
        season == in[2]
        week == in[3]
        loads == ~isna(game_id) /\ ~isna(season) /\ ~isna(week)
        df == IF loads THEN load_season_data(season_cache, files, Val(season)) ELSE NA
    IN /\ IF loads THEN LoadSeason(Val(season)) ELSE UNCHANGED <<season_cache, loadVars>>
       /\ drive_options' = [game_id |-> game_id, season |-> season, week |-> week,
                            options |-> drive_options_of(df, game_id, season, week)]
       /\ UNCHANGED <<files, suggested, display, end_games, classified_df, big_upsets,
                      stage, games_options, drive_table, callerVars>>

\* ---------------------------------------------------------------- update_games_dropdown
\* the list update_games_dropdown(season, week) returns: one option per distinct
\* game of the week, in order of first appearance
games_of(df, season, week) ==
  IF isna(season) \/ isna(week) THEN <<>>
  ELSE IF isna(df) THEN <<>>
  ELSE LET games == GameIds(WeekRows(Val(df).rows, Val(week)))
       IN [k \in 1..Len(games) |-> [value |-> games[k]]]

\* update_games_dropdown(season, week)
UpdateGamesDropdown ==
  \E season \in SeasonInputs, week \in WeekInputs :
    LET loads == ~isna(season) /\ ~isna(week)
        df == IF loads THEN load_season_data(season_cache, files, Val(season)) ELSE NA
    IN /\ IF loads THEN LoadSeason(Val(season)) ELSE UNCHANGED <<season_cache, loadVars>>
       /\ games_options' = [season |-> season, options |-> games_of(df, season, week)]
       /\ UNCHANGED <<files, suggested, display, end_games, classified_df, big_upsets,
                      stage, drive_options, drive_table, callerVars>>

\* ---------------------------------------------------------------- load_multiple_seasons
\* the rows load_multiple_seasons(season) returns for one season: those of the
\* loaded frame, or an empty DataFrame
load_multiple_seasons(cache, disk, season) ==
  LET df == load_season_data(cache, disk, season)
  IN IF isna(df) THEN <<>> ELSE Val(df).rows

\* ---------------------------------------------------------------- analysis app
\* load_single_season_data(season): the file as read, or pd.DataFrame(), which has
\* no rows and no columns
load_single_season_data(disk, season) ==
  IF season \in DOMAIN disk THEN [columns |-> TRUE, rows |-> disk[season].rows]
  ELSE [columns |-> FALSE, rows |-> <<>>]

\* one row of drive_data; the files have no home_wp and away_wp columns, so the
\* wp column is read
summary_row(drive, group) ==
  [drive |-> drive,
   start_wp |-> group[1].wp,
   end_wp |-> group[Len(group)].wp,
   wp_change |-> group[Len(group)].wp - group[1].wp,
   yards_gained |-> SumOver(group, "yards_gained")]

\* what display_drive_summary(game_id, season) returns or raises; season_df['game_id']
\* raises KeyError on a frame without columns; groupby('drive') drops the plays
\* without a drive and iterates in ascending order
drive_summary_table(disk, game_id, season) ==
  IF isna(game_id) \/ Falsy(season) THEN [raised |-> NA, data |-> <<>>]
  ELSE LET season_df == load_single_season_data(disk, Val(season))
       IN IF ~season_df.columns THEN [raised |-> Some("KeyError"), data |-> <<>>]
          ELSE LET game_df == GameRows(season_df.rows, Val(game_id))
                   found == DriveNums(game_df)
                   drives == Ascending({found[i] : i \in 1..Len(found)})
               IN [raised |-> NA,
                   data |-> [k \in 1..Len(drives) |->
                               summary_row(drives[k], DriveRows(game_df, drives[k]))]]

\* display_drive_summary(game_id, season)
DisplayDriveSummary ==
  \E game_id \in GameInputs, season \in SeasonInputs :
    LET res == drive_summary_table(files, game_id, season)
    IN /\ drive_table' = [season |-> season, raised |-> res.raised, data |-> res.data]
       /\ UNCHANGED <<files, season_cache, suggested, display, end_games, classified_df,
                      big_upsets, stage, drive_options, games_options, loadVars,
                      callerVars>>

\* ---------------------------------------------------------------- season files in blocks
\* the two plays of a drive of week 1 that starts below 0.5 and ends above it
UpBlock(game_id, drive_num) ==
  LET key == [game_id |-> game_id, week |-> 1, drive |-> Some(drive_num)]
  IN <<<<key, [play_type |-> "run", epa |-> 3, wpa |-> 1, yards_gained |-> 4, wp |-> 4]>>,
       <<key, [play_type |-> "pass", epa |-> 0 - 2, wpa |-> 0 - 1, yards_gained |-> 12,
               wp |-> 6]>>>>

\* the two plays of a drive of week 1 that starts above 0.5 and ends below it
DownBlock(game_id, drive_num) ==
  LET key == [game_id |-> game_id, week |-> 1, drive |-> Some(drive_num)]
  IN <<<<key, [play_type |-> "pass", epa |-> 0 - 2, wpa |-> 0 - 1, yards_gained |-> 12,
               wp |-> 6]>>,
       <<key, [play_type |-> "run", epa |-> 3, wpa |-> 1, yards_gained |-> 4, wp |-> 4]>>>>

\* one play of week 1 without a drive
NoDrivePlay(game_id) ==
  <<<<[game_id |-> game_id, week |-> 1, drive |-> NA],
      [play_type |-> "run", epa |-> 3, wpa |-> 1, yards_gained |-> 4, wp |-> 4]>>>>

RECURSIVE Concat(_)
\* the blocks one after the other
Concat(blocks) == IF blocks = <<>> THEN <<>> ELSE Head(blocks) \o Concat(Tail(blocks))

\* the process starts with an empty season_cache; the file of the first season is
\* made of MaxBlocks of the given blocks, the other season has no file
InitBlocks(blocks) ==
  /\ \E c \in [1..MaxBlocks -> blocks] :
       files = [s \in {2023} |-> SeasonFile(s, Concat(c))]
  /\ season_cache = <<>>
  /\ suggested = NoSuggested
  /\ display = NoDisplay
  /\ InitIdle
  /\ end_games = <<>>
  /\ classified_df = <<>>
  /\ big_upsets = <<>>
  /\ stage = "end_games"

\* drives of two games and plays without a drive
InitDrives == InitBlocks({UpBlock(1, 1), UpBlock(2, 1), NoDrivePlay(2)})

\* swinging drives of two games in any order, and plays without a drive
InitOrder ==
  InitBlocks({UpBlock(1, 1), UpBlock(1, 2), UpBlock(2, 1), DownBlock(1, 3),
              DownBlock(2, 2), NoDrivePlay(2)})

NextOrder == UpdateSuggestedDrives

SpecOrder == InitOrder /\ [][NextOrder]_vars

NextDrives == UpdateDriveOptions \/ UpdateSuggestedDrives \/ DisplayDriveData

SpecDrives == InitDrives /\ [][NextDrives]_vars

\* no season has a file, or the first season has a file with one drive and a play
\* without a drive; files stands for the folder of season files the app reads
InitCallbacks ==
  /\ files \in {<<>>, [s \in {2023} |-> SeasonFile(s, NoDrivePlay(2) \o UpBlock(2, 1))]}
  /\ season_cache = <<>>
  /\ suggested = NoSuggested
  /\ display = NoDisplay
  /\ InitIdle
  /\ end_games = <<>>
  /\ classified_df = <<>>
  /\ big_upsets = <<>>
  /\ stage = "end_games"

NextCallbacks ==
  \/ UpdateDriveOptions
  \/ UpdateGamesDropdown
  \/ UpdateSuggestedDrives
  \/ DisplayDriveData
  \/ DisplayDriveSummary

SpecCallbacks == InitCallbacks /\ [][NextCallbacks]_vars

\* ---------------------------------------------------------------- concurrent load_season_data
\* the season caller t is loading
SeasonOf(t) == Val(call[t].season)

\* what the steps of load_season_data leave alone
CallerFrame ==
  UNCHANGED <<files, suggested, display, end_games, classified_df, big_upsets, stage,
              optionVars>>

\* a callback running on some thread calls load_season_data(season)
CallLoad ==
  \E t \in Callers, season \in Seasons :
    /\ pc[t] = "idle"
    /\ pc' = [pc EXCEPT ![t] = "check"]
    /\ call' = [call EXCEPT ![t] = [season |-> Some(season), df |-> NA]]
    /\ UNCHANGED <<season_cache, loadVars>>
    /\ CallerFrame

CheckCache_mut ==
  \E t \in Callers :
    /\ pc[t] = "check"
    /\ pc' = [pc EXCEPT ![t] = "exists"]
    /\ UNCHANGED <<season_cache, loadVars, call>>
    /\ CallerFrame

\* if season not in season_cache:
CheckCache ==
  \E t \in Callers :
    /\ pc[t] = "check"
    /\ pc' = [pc EXCEPT ![t] = IF SeasonOf(t) \in DOMAIN season_cache THEN "return"
                                ELSE "exists"]
    /\ UNCHANGED <<season_cache, loadVars, call>>
    /\ CallerFrame

\* if os.path.exists(path):
CheckExists ==
  \E t \in Callers :
    /\ pc[t] = "exists"
    /\ pc' = [pc EXCEPT ![t] = IF SeasonOf(t) \in DOMAIN files THEN "read" ELSE "return"]
    /\ UNCHANGED <<season_cache, loadVars, call>>
    /\ CallerFrame

\* df = pd.read_csv(path) and the two numeric coercions
ReadCsv ==
  \E t \in Callers :
    /\ pc[t] = "read"
    /\ call' = [call EXCEPT ![t].df = Some(read_season(files[SeasonOf(t)]))]
    /\ csv_reads' = Bump(csv_reads, SeasonOf(t))
    /\ pc' = [pc EXCEPT ![t] = "store"]
    /\ UNCHANGED <<season_cache, cache_writes>>
    /\ CallerFrame

\* season_cache[season] = df
StoreFrame ==
  \E t \in Callers :
    /\ pc[t] = "store"
    /\ season_cache' = [s \in DOMAIN season_cache \cup {SeasonOf(t)} |->
                          IF s = SeasonOf(t) THEN Val(call[t].df) ELSE season_cache[s]]
    /\ cache_writes' = Bump(cache_writes, SeasonOf(t))
    /\ pc' = [pc EXCEPT ![t] = "return"]
    /\ UNCHANGED <<csv_reads, call>>
    /\ CallerFrame

\* return season_cache.get(season)
ReturnFrame ==
  \E t \in Callers :
    /\ pc[t] = "return"
    /\ pc' = [pc EXCEPT ![t] = "idle"]
    /\ call' = [call EXCEPT ![t] = NoCall]
    /\ UNCHANGED <<season_cache, loadVars>>
    /\ CallerFrame

NextCallers ==
  \/ CallLoad
  \/ CheckCache
  \/ CheckExists
  \/ ReadCsv
  \/ StoreFrame
  \/ ReturnFrame

SpecCallers == InitCallbacks /\ [][NextCallers]_vars

NextSwing == UpdateSuggestedDrives

NextNorm == DisplayDriveData

SpecNorm == InitExplorer /\ [][NextNorm]_vars

SpecSwing == InitExplorer /\ [][NextSwing]_vars

\* ---------------------------------------------------------------- swing claims
\* update_suggested_drives has returned for a selected season and week
SwingCalled == ~isna(suggested.season) /\ ~isna(suggested.week)

\* the rows of the selected season's file, none when the file does not exist
SelectedRows ==
  IF Val(suggested.season) \in DOMAIN files THEN files[Val(suggested.season)].rows
  ELSE <<>>

\* positions of the plays of drive (g, d) in the selected week
PlaysOf(g, d) ==
  {i \in 1..Len(SelectedRows) :
     /\ SelectedRows[i].week = suggested.week
     /\ SelectedRows[i].game_id = g
     /\ SelectedRows[i].drive = Some(d)}

\* the (game_id, drive) pairs with at least one play in the selected week
WeekDrives ==
  {<<SelectedRows[i].game_id, Val(SelectedRows[i].drive)>> :
     i \in {j \in 1..Len(SelectedRows) :
              SelectedRows[j].week = suggested.week /\ ~isna(SelectedRows[j].drive)}}

MinOf(S) == CHOOSE x \in S : \A y \in S : x <= y
MaxOf(S) == CHOOSE x \in S : \A y \in S : x >= y
StartWp(gd) == SelectedRows[MinOf(PlaysOf(gd[1], gd[2]))].wp
EndWp(gd) == SelectedRows[MaxOf(PlaysOf(gd[1], gd[2]))].wp

InList(list, gd) == \E j \in 1..Len(list) : list[j].value = gd

\* C5: a drive with at least one play in the selected season and week is in the
\* swing_up list iff the wp of its first play is below 0.5 and the wp of its last
\* play is above 0.5, in the swing_down list iff the first is above 0.5 and the last
\* below 0.5, and in neither list otherwise; the lists hold nothing else.
C5_SwingMembership ==
  SwingCalled =>
    /\ \A gd \in WeekDrives :
         /\ InList(suggested.up, gd) <=> (StartWp(gd) < 5 /\ EndWp(gd) > 5)
         /\ InList(suggested.down, gd) <=> (StartWp(gd) > 5 /\ EndWp(gd) < 5)
         /\ (StartWp(gd) = 5 \/ EndWp(gd) = 5)
              => ~InList(suggested.up, gd) /\ ~InList(suggested.down, gd)
    /\ \A j \in 1..Len(suggested.up) : suggested.up[j].value \in WeekDrives
    /\ \A j \in 1..Len(suggested.down) : suggested.down[j].value \in WeekDrives

\* a week with a drive that swings up and is listed, and a second drive that lies
\* exactly on 0.5 and is listed nowhere
C5_Witness ==
  /\ SwingCalled
  /\ \E gd \in WeekDrives :
       StartWp(gd) < 5 /\ EndWp(gd) > 5 /\ InList(suggested.up, gd)
  /\ \E gd \in WeekDrives :
       /\ EndWp(gd) = 5
       /\ ~InList(suggested.up, gd) /\ ~InList(suggested.down, gd)

\* C6: no (game_id, drive) pair is in both lists, no pair is twice in one list, and
\* a drive with start_wp = end_wp = 0.5 is in neither list.
C6_SwingExclusive ==
  SwingCalled =>
    /\ \A i \in 1..Len(suggested.up) : \A j \in 1..Len(suggested.down) :
         suggested.up[i].value # suggested.down[j].value
    /\ \A i, j \in 1..Len(suggested.up) :
         i # j => suggested.up[i].value # suggested.up[j].value
    /\ \A i, j \in 1..Len(suggested.down) :
         i # j => suggested.down[i].value # suggested.down[j].value
    /\ \A gd \in WeekDrives :
         (StartWp(gd) = 5 /\ EndWp(gd) = 5)
           => ~InList(suggested.up, gd) /\ ~InList(suggested.down, gd)

\* a week with a drive that swings down and a drive whose first and last wp are 0.5
C6_Witness ==
  /\ SwingCalled
  /\ Len(suggested.down) > 0
  /\ \E gd \in WeekDrives : StartWp(gd) = 5 /\ EndWp(gd) = 5


\* ---------------------------------------------------------------- fingerprint claims
\* display_drive_data has returned the table and the charts of a drive
Shown == isna(display.raised) /\ ~isna(display.charts)

\* the rows of the displayed drive, and the week and the cached frame they are from
ShownRows == display.children.table
ShownWeek == Val(ShownRows[1].week)
ShownFrame == season_cache[Val(ShownRows[1].season)]

\* the comparison pool of the displayed drive: the plays of its week, their
\* (game_id, drive) groups, the summaries and the six medians
PoolRows == WeekRows(ShownFrame.rows, ShownWeek)
PoolKeys == GroupKeys(PoolRows)
PoolSummaries == summary_data(ShownFrame, PoolRows)
PoolMedian == median_of(PoolSummaries)
TargetSummary == drive_summary(ShownFrame, ShownRows)

\* number of plays of type t in pool drive gd, counted on the rows directly
TypeCount(gd, t) ==
  Cardinality({i \in 1..Len(PoolRows) :
                 /\ PoolRows[i].game_id = gd[1]
                 /\ PoolRows[i].drive = Some(gd[2])
                 /\ PoolRows[i].play_type = t})

SummaryOf(gd) == drive_summary(ShownFrame, DriveRows(GameRows(PoolRows, gd[1]), gd[2]))

\* C7: for every drive summary, run_pct + pass_pct <= 1, each is the count of its
\* play type over the count of run and pass plays, and with no run and no pass
\* play both are exactly 0 and nothing is divided by zero.
C7_PlayMixPercentages ==
  Shown =>
    \A gd \in PoolKeys :
      LET sm == SummaryOf(gd)
          runs == TypeCount(gd, "run")
          passes == TypeCount(gd, "pass")
      IN /\ sm.run_pct[2] > 0 /\ sm.pass_pct[2] > 0
         /\ RatLeq(RatAdd(sm.run_pct, sm.pass_pct), RatOne)
         /\ sm.run_pct[1] * (runs + passes) = runs * sm.run_pct[2]
         /\ sm.pass_pct[1] * (runs + passes) = passes * sm.pass_pct[2]
         /\ (runs + passes = 0 => sm.run_pct = RatZero /\ sm.pass_pct = RatZero)

\* the pool holds a drive without run or pass plays and a drive with both
C7_Witness ==
  /\ Shown
  /\ \E gd \in PoolKeys : TypeCount(gd, "run") + TypeCount(gd, "pass") = 0
  /\ \E gd \in PoolKeys : TypeCount(gd, "run") > 0 /\ TypeCount(gd, "pass") > 0

\* C8: in each of the six dimensions the fingerprint value is the target's metric
\* divided by the pool median when the median is not zero, and exactly 0 when the
\* median is 0.
C8_FingerprintRatio ==
  Shown =>
    /\ Len(Val(display.charts).radar_this) = 6
    /\ \A i \in 1..6 :
         LET k == MetricKeys[i]
             fp == Val(display.charts).radar_this[i]
         IN /\ PoolMedian[k] # RatZero
                 => /\ RatMul(fp, PoolMedian[k]) = TargetSummary[k]
                    /\ fp[2] > 0
            /\ PoolMedian[k] = RatZero => fp = RatZero

\* a displayed drive with a dimension whose median is 0 while the target's metric is
\* not, and a dimension whose ratio is neither 0 nor 1
C8_Witness ==
  /\ Shown
  /\ \E i \in 1..6 :
       PoolMedian[MetricKeys[i]] = RatZero /\ TargetSummary[MetricKeys[i]] # RatZero
  /\ \E i \in 1..6 :
       Val(display.charts).radar_this[i] \notin {RatZero, RatOne}

\* the fingerprint of the pool's own median drive
MedianDriveFingerprint == fingerprint(PoolMedian, PoolMedian)

\* C9 as stated: the fingerprint of the pool's median drive is the all-ones
\* reference vector.
C9_Original ==
  Shown => MedianDriveFingerprint = Val(display.charts).radar_median

\* C9 (amended): the fingerprint of the pool's median drive is 1 in every dimension
\* whose median is not zero and 0 in every dimension whose median is 0.
C9_MedianDriveFingerprint ==
  Shown =>
    \A i \in 1..6 :
      MedianDriveFingerprint[i] =
        IF PoolMedian[MetricKeys[i]] = RatZero THEN RatZero
        ELSE Val(display.charts).radar_median[i]

\* a pool with a zero median in one dimension and a median that is neither 0 nor 1
\* in another
C9_Witness ==
  /\ Shown
  /\ \E i \in 1..6 : PoolMedian[MetricKeys[i]] = RatZero
  /\ \E i \in 1..6 : PoolMedian[MetricKeys[i]] \notin {RatZero, RatOne}

\* no play of any season file has a drive: every comparison pool is empty
AllPoolsEmpty == \A s \in DOMAIN files : GroupKeys(files[s].rows) = {}

\* a drive was selected in a loaded season and had no plays
NoDriveData == display.children.msg = Some("No data for selected drive.")

\* C10 as stated: with an empty comparison pool the result is a fingerprint of six
\* zeros and an empty scatter table.
C10_Original ==
  (AllPoolsEmpty /\ NoDriveData) =>
    /\ ~isna(display.charts)
    /\ Val(display.charts).radar_this = [i \in 1..6 |-> RatZero]
    /\ Val(display.charts).bubble = <<>>

\* C10 (amended): display_drive_data never raises; the charts are only built from a
\* non-empty pool that holds the displayed drive, one scatter row per pool drive;
\* with an empty pool the result is a message without charts.
C10_EmptyPoolMessage ==
  /\ isna(display.raised)
  /\ ~isna(display.charts) =>
       /\ ShownRows # <<>>
       /\ <<ShownRows[1].game_id, Val(ShownRows[1].drive)>> \in PoolKeys
       /\ Len(Val(display.charts).bubble) = Cardinality(PoolKeys)
  /\ AllPoolsEmpty => isna(display.charts) /\ display.children.table = <<>>

\* a drive is selected in a loaded season that has plays but no drive at all
C10_Witness ==
  /\ AllPoolsEmpty
  /\ NoDriveData
  /\ \E s \in DOMAIN season_cache : Len(season_cache[s].rows) > 0

\* ---------------------------------------------------------------- pool claims
\* the distinct (game_id, drive) pairs of the plays of the pool that have a drive
PoolPairs ==
  {<<PoolRows[i].game_id, Val(PoolRows[i].drive)>> :
     i \in {j \in 1..Len(PoolRows) : ~isna(PoolRows[j].drive)}}

\* positions in the pool of the plays of the pair gd
PairPlays(gd) ==
  {i \in 1..Len(PoolRows) : PoolRows[i].game_id = gd[1] /\ PoolRows[i].drive = Some(gd[2])}

\* position of the pair gd among the pairs in ascending (game_id, drive) order
PairRank(gd) ==
  Cardinality({x \in PoolPairs : x[1] < gd[1] \/ (x[1] = gd[1] /\ x[2] <= gd[2])})

RECURSIVE PoolSum(_, _)
\* sum of column col over the pool plays at the positions S
PoolSum(S, col) ==
  IF S = {} THEN 0
  ELSE LET i == CHOOSE x \in S : TRUE IN PoolRows[i][col] + PoolSum(S \ {i}, col)

\* C11: the comparison pool holds exactly one summary per distinct (game_id, drive)
\* pair of the plays of the week that have a drive: as many summaries as pairs, and
\* the summary of each pair covers all the plays of that pair and no other, however
\* many they are and wherever they stand in the input; the same drive number in two
\* games gives two summaries.
C11_OneSummaryPerDrive ==
  Shown =>
    LET bubble == Val(display.charts).bubble IN
    /\ Len(bubble) = Cardinality(PoolPairs)
    /\ \A gd \in PoolPairs :
         /\ bubble[PairRank(gd)].epa = RatInt(PoolSum(PairPlays(gd), "epa"))
         /\ bubble[PairRank(gd)].wpa = RatInt(PoolSum(PairPlays(gd), "wpa"))
         /\ bubble[PairRank(gd)].size = RatInt(Abs(PoolSum(PairPlays(gd), "yards_gained")))

\* a pool where the two plays of one drive are separated by a play of a drive with
\* the same number in another game
C11_Witness ==
  /\ Shown
  /\ \E gd \in PoolPairs : \E i, k \in PairPlays(gd) : \E j \in 1..Len(PoolRows) :
       /\ i < j /\ j < k
       /\ PoolRows[j].drive = Some(gd[2])
       /\ PoolRows[j].game_id # gd[1]

\* ---------------------------------------------------------------- plays without a drive
\* the frame without the plays that have no drive
WithDrive(frame) ==
  LET HasDrive(p) == ~isna(p.drive) IN [frame EXCEPT !.rows = SelectSeq(@, HasDrive)]

\* what load_season_data(season) returns in the current state, without the plays
\* that have no drive
LoadedWithDrive(season) ==
  IF season \in DOMAIN season_cache THEN Some(WithDrive(season_cache[season])) ELSE NA

RECURSIVE SumAt(_, _, _)
\* sum of column col over the rows at the positions S
SumAt(rows, S, col) ==
  IF S = {} THEN 0
  ELSE LET i == CHOOSE x \in S : TRUE IN rows[i][col] + SumAt(rows, S \ {i}, col)

\* update_drive_options has returned for a selected game, season and week
OptionsCalled ==
  ~isna(drive_options.game_id) /\ ~isna(drive_options.season) /\ ~isna(drive_options.week)

\* the rows of the season the drive options were asked for
OptionRows ==
  IF Val(drive_options.season) \in DOMAIN files
  THEN files[Val(drive_options.season)].rows ELSE <<>>

\* positions of the plays of drive d of the game and week the options were asked for
OptionPlays(d) ==
  {i \in 1..Len(OptionRows) :
     /\ OptionRows[i].week = drive_options.week
     /\ OptionRows[i].game_id = Val(drive_options.game_id)
     /\ OptionRows[i].drive = Some(d)}

\* every drive option sums the plays of its own drive only
OptionsCountDrivePlays ==
  OptionsCalled =>
    \A k \in 1..Len(drive_options.options) :
      LET o == drive_options.options[k] IN
      /\ OptionPlays(o.value) # {}
      /\ o.epa = SumAt(OptionRows, OptionPlays(o.value), "epa")
      /\ o.yds = SumAt(OptionRows, OptionPlays(o.value), "yards_gained")

\* every swing entry sums the plays of its own drive only
SwingsCountDrivePlays ==
  SwingCalled =>
    \A list \in {suggested.up, suggested.down} : \A k \in 1..Len(list) :
      /\ list[k].epa = SumAt(SelectedRows, PlaysOf(list[k].value[1], list[k].value[2]), "epa")
      /\ list[k].yds =
           SumAt(SelectedRows, PlaysOf(list[k].value[1], list[k].value[2]), "yards_gained")

\* the drive options are those of the frame without the plays that have no drive
OptionsIgnoreNoDrive ==
  OptionsCalled =>
    drive_options.options =
      drive_options_of(LoadedWithDrive(Val(drive_options.season)), drive_options.game_id,
                       drive_options.season, drive_options.week)

\* the swing lists of the frame without the plays that have no drive
SwingsWithDrive ==
  suggested_drives(LoadedWithDrive(Val(suggested.season)), suggested.season, suggested.week)

\* the table and the charts are those of the frame without the plays that have no
\* drive
PoolIgnoresNoDrive ==
  Shown =>
    /\ \A i \in 1..Len(ShownRows) : ~isna(ShownRows[i].drive)
    /\ display = drive_charts(WithDrive(ShownFrame), WithDrive(ShownFrame).rows,
                              ShownWeek, ShownRows)

\* the entries of a swing list that belong to game g, in list order
OfGame(list, g) == LET InG(o) == o.value[1] = g IN SelectSeq(list, InG)

Entries(list) == {list[k] : k \in 1..Len(list)}

\* C12 as stated: a play without a drive is in no drive option, no swing entry and
\* no pool summary, and the drive options, the two swing lists and the charts are
\* exactly those of the input without such plays.
C12_Original ==
  /\ OptionsCountDrivePlays
  /\ SwingsCountDrivePlays
  /\ OptionsIgnoreNoDrive
  /\ PoolIgnoresNoDrive
  /\ SwingCalled => /\ suggested.up = SwingsWithDrive.up
                    /\ suggested.down = SwingsWithDrive.down

\* C12 (amended): a play without a drive is in no drive option, no swing entry and
\* no pool summary; the drive options and the charts are exactly those of the input
\* without such plays; each swing list holds the same entries as for the input
\* without such plays, the entries of one game in the same order, while the order
\* of the games can differ.
C12_NoDrivePlaysExcluded ==
  /\ OptionsCountDrivePlays
  /\ SwingsCountDrivePlays
  /\ OptionsIgnoreNoDrive
  /\ PoolIgnoresNoDrive
  /\ SwingCalled =>
       /\ Entries(suggested.up) = Entries(SwingsWithDrive.up)
       /\ Entries(suggested.down) = Entries(SwingsWithDrive.down)
       /\ Len(suggested.up) = Len(SwingsWithDrive.up)
       /\ Len(suggested.down) = Len(SwingsWithDrive.down)
       /\ \A g \in {1, 2} :
            /\ OfGame(suggested.up, g) = OfGame(SwingsWithDrive.up, g)
            /\ OfGame(suggested.down, g) = OfGame(SwingsWithDrive.down, g)

\* the week has plays without a drive; drive options, swing lists and charts have
\* all been produced from it, and a play without a drive comes before the plays of
\* the first listed swing drive
C12_Witness ==
  /\ OptionsCalled /\ Len(drive_options.options) > 0
  /\ \E i \in 1..Len(OptionRows) :
       /\ isna(OptionRows[i].drive)
       /\ OptionRows[i].week = drive_options.week
       /\ OptionRows[i].game_id = Val(drive_options.game_id)
  /\ SwingCalled /\ Len(suggested.up) > 1
  /\ \E i \in 1..Len(SelectedRows) :
       /\ isna(SelectedRows[i].drive)
       /\ SelectedRows[i].week = suggested.week
       /\ \A j \in PlaysOf(suggested.up[1].value[1], suggested.up[1].value[2]) : i < j
  /\ Shown
  /\ \E i \in 1..Len(PoolRows) : isna(PoolRows[i].drive)

\* ---------------------------------------------------------------- missing seasons
\* the season has no file
Missing(season) == ~isna(season) /\ Val(season) \notin DOMAIN files

\* the loaders yield no records for a season without a file
LoadersYieldNothing ==
  \A s \in Seasons \ DOMAIN files :
    /\ isna(load_season_data(season_cache, files, s))
    /\ load_multiple_seasons(season_cache, files, s) = <<>>
    /\ load_single_season_data(files, s).rows = <<>>
    /\ s \notin DOMAIN season_cache

\* the explorer's callbacks return their empty result for a season without a file
\* and never raise
ExplorerReturnsEmpty ==
  /\ Missing(drive_options.season) => drive_options.options = <<>>
  /\ Missing(games_options.season) => games_options.options = <<>>
  /\ Missing(suggested.season) => suggested.up = <<>> /\ suggested.down = <<>>
  /\ isna(display.raised)
  /\ Shown => ~Missing(ShownRows[1].season)
  /\ DOMAIN files = {} => display.children.table = <<>>

\* display_drive_summary returns its empty result for a season without a file
SummaryReturnsEmpty ==
  Missing(drive_table.season) => isna(drive_table.raised) /\ drive_table.data = <<>>

\* C13: requesting a season without a file never raises: the loaders yield no
\* records for it, and drive options, game list, suggested drives, drive display
\* and the drive summary of a selected game return their empty result.
C13_Original ==
  /\ LoadersYieldNothing
  /\ ExplorerReturnsEmpty
  /\ SummaryReturnsEmpty

\* the part of C13 that holds: the loaders and the explorer's callbacks
C13_ExplorerPart == LoadersYieldNothing /\ ExplorerReturnsEmpty

\* ---------------------------------------------------------------- cache population
\* the callers that have read the file of season s and not yet stored the frame
Storing(s) == {t \in Callers : pc[t] = "store" /\ call[t].season = Some(s)}

\* C14 as stated: under concurrent first access to one season key the season's
\* records are read and written into season_cache at most once.
C14_Original ==
  \A s \in Seasons : Count(csv_reads, s) <= 1 /\ Count(cache_writes, s) <= 1

\* C14 (amended): under concurrent first access a season's records are read and
\* written at most once per caller, so at most as many times as there are callers:
\* every read is followed by one write of the frame read, and a key that is in
\* season_cache has been written at least once.
C14_OncePerCaller ==
  \A s \in Seasons :
    /\ Count(csv_reads, s) <= MaxCallers
    /\ Count(csv_reads, s) = Count(cache_writes, s) + Cardinality(Storing(s))
    /\ s \in DOMAIN season_cache <=> Count(cache_writes, s) >= 1
    /\ \A t \in Storing(s) : call[t].df = Some(read_season(files[s]))

\* two callers have both read and both written the same season
C14_Witness ==
  \E s \in Seasons : Count(csv_reads, s) > 1 /\ Count(cache_writes, s) > 1

\* ---------------------------------------------------------------- cache entries
\* C15: once a season key is in season_cache, no call of a callback changes its
\* entry: the key stays, the entry stays equal to the frame first stored, and the
\* file is not read nor the entry written again; the entry is the file as read.
C15_CacheReadOnly ==
  [][\A s \in DOMAIN season_cache :
       /\ s \in DOMAIN season_cache'
       /\ season_cache'[s] = season_cache[s]
       /\ season_cache[s] = read_season(files[s])
       /\ Count(csv_reads', s) = Count(csv_reads, s)
       /\ Count(cache_writes', s) = Count(cache_writes, s)
       /\ Count(csv_reads, s) = 1 /\ Count(cache_writes, s) = 1]_vars

\* the four callbacks have each loaded the same cached season, which was read once
C15_Witness ==
  \E s \in DOMAIN season_cache :
    /\ Count(csv_reads, s) = 1
    /\ OptionsCalled /\ drive_options.season = Some(s)
    /\ games_options.season = Some(s) /\ Len(games_options.options) > 0
    /\ SwingCalled /\ suggested.season = Some(s)
    /\ Shown /\ ShownRows[1].season = Some(s)

\* ---------------------------------------------------------------- swing order
\* position of the first play of game g among the plays of the selected week, with
\* or without a drive
FirstOfGame(g) ==
  MinOf({i \in 1..Len(SelectedRows) :
           SelectedRows[i].week = suggested.week /\ SelectedRows[i].game_id = g})

\* drive a comes before drive b in the enumeration order of the input
Before(a, b) ==
  \/ FirstOfGame(a[1]) < FirstOfGame(b[1])
  \/ a[1] = b[1] /\ MinOf(PlaysOf(a[1], a[2])) < MinOf(PlaysOf(b[1], b[2]))

\* C16: in swing_up and in swing_down the entries stand in the order of the first
\* appearance of their game_id among the plays of the week and, within one game,
\* of the first appearance of the drive number among that game's plays; neither
\* game ids nor drive numbers are sorted, and the order is fixed by the input.
C16_SwingOrder ==
  SwingCalled =>
    \A list \in {suggested.up, suggested.down} :
      \A i, j \in 1..Len(list) : i < j => Before(list[i].value, list[j].value)

\* a list where a game with the larger id comes first and where, within one game,
\* the larger drive number comes first
C16_Witness ==
  /\ SwingCalled
  /\ \E i, j \in 1..Len(suggested.up) :
       i < j /\ suggested.up[i].value[1] > suggested.up[j].value[1]
  /\ \E i, j \in 1..Len(suggested.up) :
       /\ i < j
       /\ suggested.up[i].value[1] = suggested.up[j].value[1]
       /\ suggested.up[i].value[2] > suggested.up[j].value[2]

====
